---------------------------- MODULE Spec2Model ----------------------------
(***************************************************************************)
(* Model of piastrixlib.PiastrixClient: request signing (_sign), response  *)
(* interpretation (_post), extra-field merging, the business operations    *)
(* and callback verification (check_callback).                             *)
(*                                                                         *)
(* Python values are tuples of one-character strings headed by a type tag: *)
(*   'ab' is <<"str","a","b">>, 12 is <<"int","1","2">>, None is           *)
(*   <<"NoneType">>.  Two values are == in Python iff the tuples are equal *)
(*   (an int never equals a str).                                          *)
(* A dict is the sequence of its <<key, value>> items in insertion order.  *)
(* SHA-256 is taken as collision-free: the hex digest of a text is the     *)
(* text itself behind the marker "#", which occurs in no other string.     *)
(***************************************************************************)
EXTENDS Naturals, Sequences, FiniteSets, TLC

VARIABLES
    shop_id,        \* PiastrixClient.shop_id
    secret_key,     \* PiastrixClient.secret_key
    first,          \* SpecSign: the first _sign call (input and outcome)
    second,         \* SpecSign: a later _sign call with the same required fields
    request_data,   \* Spec: the notification dict object the caller holds
    prev,           \* Spec: the check_callback call before the latest one on it
    cur,            \* Spec: the latest check_callback call on it
    last            \* SpecOps: the latest business operation call

vars == <<shop_id, secret_key, first, second, request_data, prev, cur, last>>

-----------------------------------------------------------------------------
(* Python values *)

Str(cs) == <<"str">> \o cs
Int(cs) == <<"int">> \o cs
None == <<"NoneType">>
True == <<"bool", "T", "r", "u", "e">>
False == <<"bool", "F", "a", "l", "s", "e">>

\* isinstance(v, str): what str.join demands of every item
IsStr(v) == v[1] = "str"

\* Python's str(v), as the specification's signature algorithm applies it
StrOf(v) == IF v = None THEN <<"N", "o", "n", "e">> ELSE Tail(v)

-----------------------------------------------------------------------------
(* dict *)

HasKey(d, k) == \E i \in 1..Len(d) : d[i][1] = k

Get(d, k) == d[CHOOSE i \in 1..Len(d) : d[i][1] = k][2]

RECURSIVE keys(_)
keys(d) == IF d = <<>> THEN <<>> ELSE <<d[1][1]>> \o keys(Tail(d))

KeySet(d) == {d[i][1] : i \in 1..Len(d)}

\* d[k] = v: an existing key keeps its place, a new one goes last
SetItem(d, k, v) ==
    IF HasKey(d, k)
    THEN [d EXCEPT ![CHOOSE i \in 1..Len(d) : d[i][1] = k] = <<k, v>>]
    ELSE Append(d, <<k, v>>)

\* d.pop(k) of a present key: what is left of d
Pop(d, k) == SelectSeq(d, LAMBDA item : item[1] # k)

RECURSIVE update(_, _)
update(d, e) ==
    IF e = <<>> THEN d ELSE update(SetItem(d, e[1][1], e[1][2]), Tail(e))

-----------------------------------------------------------------------------
(* _sign *)

\* every field name of the model, in the order of Python's string comparison
KeyOrder ==
    <<"a", "account", "account_details", "amount", "amount_type", "b",
      "currency", "description", "now", "payee_account", "payee_currency",
      "payer_currency", "payway", "shop_amount", "shop_currency", "shop_id",
      "shop_order_id", "shop_payment_id", "sign", "status", "withdraw_id">>

Rank(k) == CHOOSE i \in 1..Len(KeyOrder) : KeyOrder[i] = k

sorted_as_listed(ks) == ks
sorted(ks) == SortSeq(ks, LAMBDA x, y : Rank(x) < Rank(y))

RECURSIVE join_no_separator(_, _)
join_no_separator(sep, items) ==
    IF items = <<>> THEN <<>> ELSE items[1] \o join_no_separator(sep, Tail(items))

RECURSIVE join(_, _)
join(sep, items) ==
    IF items = <<>> THEN <<>>
    ELSE IF Len(items) = 1 THEN items[1]
    ELSE items[1] \o sep \o join(sep, Tail(items))

hexdigest(text) == Str(<<"#">> \o text)

RECURSIVE sorted_data(_, _)
sorted_data(data, ks) ==
    IF ks = <<>> THEN <<>>
    ELSE <<Get(data, ks[1])>> \o sorted_data(data, Tail(ks))

RECURSIVE Texts(_)
Texts(vs) == IF vs = <<>> THEN <<>> ELSE <<Tail(vs[1])>> \o Texts(Tail(vs))

Raised(exc) == [exc |-> exc, error_code |-> 0]
Returned == [exc |-> "none", error_code |-> 0]

\* The outcome of self._sign(data, required_fields): data[key] raises KeyError
\* for a missing key, ':'.join raises TypeError for an item that is no str,
\* and only then is data['sign'] assigned.
_sign(data, required_fields, secret) ==
    LET ks == sorted(required_fields)
    IN  IF \E i \in 1..Len(ks) : ~HasKey(data, ks[i])
        THEN [exc |-> "KeyError", data |-> data]
        ELSE LET vs == sorted_data(data, ks)
             IN  IF \E i \in 1..Len(vs) : ~IsStr(vs[i])
                 THEN [exc |-> "TypeError", data |-> data]
                 ELSE [exc |-> "none",
                       data |-> SetItem(data, "sign",
                                   hexdigest(join(<<":">>, Texts(vs)) \o secret))]

-----------------------------------------------------------------------------
(* The signature as specified:                                             *)
(*   hex(SHA256(join(':', [str(fields[k]) for k in sorted(names)]) + secret)) *)
(* over a SET of names, written without the model's _sign.                 *)

RECURSIVE SortedNames(_)
SortedNames(S) ==
    IF S = {} THEN <<>>
    ELSE LET k == CHOOSE x \in S : \A y \in S : Rank(x) <= Rank(y)
         IN  <<k>> \o SortedNames(S \ {k})

RECURSIVE CoercedJoin(_, _)
CoercedJoin(fields, ks) ==
    IF ks = <<>> THEN <<>>
    ELSE IF Len(ks) = 1 THEN StrOf(Get(fields, ks[1]))
    ELSE StrOf(Get(fields, ks[1])) \o <<":">> \o CoercedJoin(fields, Tail(ks))

Signature(fields, names, secret) ==
    <<"str", "#">> \o CoercedJoin(fields, SortedNames(names)) \o secret

SeqSet(s) == {s[i] : i \in 1..Len(s)}

-----------------------------------------------------------------------------
(* SpecSign: _sign applied to bounded field mappings *)

Secrets == {<<"k">>, <<"k", "1">>}

\* the longest generated value text
MaxLen == 2

GeneratedTexts(n) == UNION {[1..m -> {"1", ":"}] : m \in 1..n}

\* every string of '1' and ':' up to MaxLen, the strings of the example
\* {"a":"1","b":"23"} / {"a":"12","b":"3"}, and the integer 1
SignValues ==
    {Str(t) : t \in GeneratedTexts(MaxLen)}
        \cup {Str(<<"1", "2">>), Str(<<"2", "3">>), Str(<<"3">>), Int(<<"1">>)}

\* the mappings {'a': x, 'b': y}, {'b': y, 'a': '1'} and {'a': '1'}
SignData ==
    {<<<<"a", x>>, <<"b", y>>>> : x \in SignValues, y \in SignValues}
        \cup {<<<<"b", y>>, <<"a", Str(<<"1">>)>>>> : y \in SignValues}
        \cup {<<<<"a", Str(<<"1">>)>>>>}

SignRequired == {<<"a">>, <<"b", "a">>}

NoCall == [called |-> FALSE]

SignCall(data, required_fields) ==
    [called |-> TRUE, data |-> data, required_fields |-> required_fields,
     result |-> _sign(data, required_fields, secret_key)]

IdleCallback ==
    /\ request_data = <<>>
    /\ prev = NoCall
    /\ cur = NoCall

IdleOps == last = NoCall

IdleSign == first = NoCall /\ second = NoCall

InitSign ==
    /\ shop_id = Str(<<"7">>)
    /\ secret_key \in Secrets
    /\ IdleSign
    /\ IdleCallback
    /\ IdleOps

SignFirst ==
    /\ ~first.called
    /\ \E data \in SignData, required_fields \in SignRequired :
           first' = SignCall(data, required_fields)
    /\ second' = NoCall
    /\ UNCHANGED <<shop_id, secret_key, request_data, prev, cur, last>>

SignSecond ==
    /\ first.called
    /\ ~second.called
    /\ \E data \in SignData : second' = SignCall(data, first.required_fields)
    /\ UNCHANGED <<shop_id, secret_key, first, request_data, prev, cur, last>>

NextSign == SignFirst \/ SignSecond

SpecSign == InitSign /\ [][NextSign]_vars

-----------------------------------------------------------------------------
(* check_callback *)

ExtraFieldsError == 1000
IpError == 1001
SignError == 1002
ShopAmountError == 1003
ShopCurrencyError == 1004
StatusError == 1005
LanguageError == 1006
AmountTypeError == 1007

PiastrixClientException(error_code) ==
    [exc |-> "PiastrixClientException", error_code |-> error_code]

allowed_ip_address ==
    {"87.98.145.206", "51.68.53.104", "51.68.53.105", "51.68.53.106",
     "51.68.53.107", "91.121.216.63", "37.48.108.180", "37.48.108.181"}

success == Str(<<"s", "u", "c", "c", "e", "s", "s">>)

\* [key for key in request_data.keys() if request_data[key] not in ['', None]]
NonEmptyKeys(d) ==
    keys(SelectSeq(d, LAMBDA item : item[2] \notin {Str(<<>>), None}))

\* The outcome of check_callback and the dict it leaves behind.  The 'sign'
\* item is popped before anything is checked; _sign then stores the
\* recomputed digest in the caller's dict.
check_callback_steps(d, remote_ip_address, shop_amount, shop_currency, secret) ==
    IF ~HasKey(d, "sign")
    THEN [result |-> Raised("KeyError"), data |-> d]
    ELSE
    LET sign == Get(d, "sign")
        popped == Pop(d, "sign")
    IN  IF remote_ip_address \notin allowed_ip_address
        THEN [result |-> PiastrixClientException(IpError), data |-> popped]
        ELSE
        LET signed == _sign(popped, NonEmptyKeys(popped), secret)
            data == signed.data
            Field(k, expected, error_code, rest) ==
                IF ~HasKey(data, k) THEN Raised("KeyError")
                ELSE IF expected # Get(data, k)
                THEN PiastrixClientException(error_code)
                ELSE rest
        IN  [data |-> data,
             result |->
                IF signed.exc # "none" THEN Raised(signed.exc)
                ELSE IF sign # Get(data, "sign")
                THEN PiastrixClientException(SignError)
                ELSE Field("shop_amount", shop_amount, ShopAmountError,
                     Field("shop_currency", shop_currency, ShopCurrencyError,
                     Field("status", success, StatusError, Returned)))]

\* the notifications and arguments of the model
Amounts == {Str(<<"1">>), Int(<<"1">>)}
ExpectedAmounts == Amounts \cup {Str(<<"2">>)}
Currencies == {Str(<<"6">>)}
ExpectedCurrencies == Currencies \cup {Str(<<"7">>)}
Statuses == {success, Str(<<"r">>)}
Descriptions ==
    {<<>>, <<<<"description", Str(<<>>)>>>>, <<<<"description", None>>>>,
     <<<<"description", Str(<<"d">>)>>>>}
Addresses == {"87.98.145.206", "10.0.0.1"}
forged == Str(<<"f">>)

Payloads ==
    {<<<<"shop_amount", a>>, <<"shop_currency", c>>, <<"status", s>>>> \o d :
        a \in Amounts, c \in Currencies, s \in Statuses, d \in Descriptions}

\* a payload unsigned, with a forged 'sign', or signed as specified
Notifications(secret) ==
    Payloads
        \cup {Append(p, <<"sign", forged>>) : p \in Payloads}
        \cup {Append(p, <<"sign", Signature(p, SeqSet(NonEmptyKeys(p)), secret)>>) :
                 p \in Payloads}

Init ==
    /\ shop_id = Str(<<"7">>)
    /\ secret_key \in Secrets
    /\ request_data \in Notifications(secret_key)
    /\ prev = NoCall
    /\ cur = NoCall
    /\ IdleSign
    /\ IdleOps

check_callback(remote_ip_address, shop_amount, shop_currency) ==
    LET r == check_callback_steps(request_data, remote_ip_address,
                                  shop_amount, shop_currency, secret_key)
        args == <<remote_ip_address, shop_amount, shop_currency>>
    IN  /\ request_data' = r.data
        /\ cur' = [called |-> TRUE, args |-> args,
                   request_data |-> request_data, result |-> r.result]
        /\ prev' = IF cur.called
                   THEN [called |-> TRUE, args |-> cur.args, result |-> cur.result]
                   ELSE NoCall
        /\ UNCHANGED <<shop_id, secret_key, first, second, last>>

Next ==
    \E remote_ip_address \in Addresses, shop_amount \in ExpectedAmounts,
       shop_currency \in ExpectedCurrencies :
        check_callback(remote_ip_address, shop_amount, shop_currency)

Spec == Init /\ [][Next]_vars

-----------------------------------------------------------------------------
(* _post and the business operations *)

\* TRUE iff _check_extra_fields_keys raises ExtraFieldsError
_check_extra_fields_keys_never(extra_fields, req_dict) == FALSE
_check_extra_fields_keys(extra_fields, req_dict) ==
    \E i \in 1..Len(extra_fields) : HasKey(req_dict, extra_fields[i][1])

NoResponse == [status_code |-> 0, body |-> <<>>]

\* response.raise_for_status(): HTTPError for a 4xx or 5xx status
raise_for_status(response) == response.status_code >= 400

\* The outcome of _post for the transport's response.
_post(response) ==
    LET result == response.body
        Outcome(r, message, value) == [result |-> r, message |-> message, value |-> value]
    IN  IF raise_for_status(response)
        THEN Outcome(Raised("HTTPError"), None, None)
        ELSE IF ~HasKey(result, "result")
        THEN Outcome(Raised("KeyError"), None, None)
        ELSE IF Get(result, "result") = True
        THEN Outcome(Returned, None,
                     IF HasKey(result, "data") THEN Get(result, "data") ELSE None)
        ELSE IF ~HasKey(result, "message") \/ ~HasKey(result, "error_code")
        THEN Outcome(Raised("KeyError"), None, None)
        ELSE Outcome(PiastrixClientException(Get(result, "error_code")),
                     Get(result, "message"), None)

PiastrixTransferAmountType == {Str(<<"receive_amount">>), Str(<<"writeoff_amount">>)}
PiastrixWithdrawAmountType == {Str(<<"ps_amount">>), Str(<<"shop_amount">>)}

AnyAmountType(amount_type) == TRUE
TransferAmountTypeOk(amount_type) == amount_type \in PiastrixTransferAmountType
WithdrawAmountTypeOk(amount_type) == amount_type \in PiastrixWithdrawAmountType

NoExtra == [given |-> FALSE, d |-> <<>>]
Extra(d) == [given |-> TRUE, d |-> d]

\* The steps every operation shares after building req_dict: the optional
\* extra-field check and merge, the amount_type validation (transfer,
\* withdraw_try, withdraw), _sign, and _post (pay returns the form instead).
Operation(op, endpoint, req_dict, required_fields, extra_fields, amount_type_ok, lang, response) ==
    LET merged == IF extra_fields.given
                  THEN update(req_dict, extra_fields.d) ELSE req_dict
        signed == _sign(merged, required_fields, secret_key)
        call == [called |-> TRUE, op |-> op, endpoint |-> endpoint,
                 req_dict |-> req_dict, required_fields |-> required_fields,
                 extra_fields |-> extra_fields, lang |-> lang,
                 sent |-> <<>>, response |-> NoResponse, form |-> <<>>,
                 result |-> Returned, message |-> None, value |-> None]
        posted == _post(response)
    IN  IF extra_fields.given /\ _check_extra_fields_keys(extra_fields.d, req_dict)
        THEN [call EXCEPT !.result = PiastrixClientException(ExtraFieldsError)]
        ELSE IF ~amount_type_ok
        THEN [call EXCEPT !.result = PiastrixClientException(AmountTypeError)]
        ELSE IF signed.exc # "none"
        THEN [call EXCEPT !.result = Raised(signed.exc)]
        ELSE IF op = "pay"
        THEN [call EXCEPT !.form = <<signed.data>>]
        ELSE [call EXCEPT !.sent = <<signed.data>>, !.response = response,
                          !.result = posted.result, !.message = posted.message,
                          !.value = posted.value]

\* argument values of the model
Nows == {Str(<<"t", "1">>), Str(<<"t", "2">>)}
OpAmounts == {Str(<<"1">>), Int(<<"1">>)}
AmountTypes ==
    PiastrixTransferAmountType \cup PiastrixWithdrawAmountType
        \cup {Str(<<"bogus">>)}
Langs == {"ru", "en", "fr"}
Details == <<"dict", "card">>
AccountDetails == {NoExtra, [given |-> TRUE, d |-> Details]}
\* the most extra fields a caller passes
MaxExtraFields == 2

ExtraItems ==
    {<<"description", Str(<<"d">>)>>, <<"sign", forged>>,
     <<"amount", Str(<<"9">>)>>, <<"shop_id", Str(<<"8">>)>>,
     <<"account_details", Details>>}

\* extra_fields: None, or a dict of up to MaxExtraFields of the items above,
\* in any insertion order
ExtraFields ==
    {NoExtra} \cup
    {Extra(d) : d \in {e \in UNION {[1..m -> ExtraItems] : m \in 0..MaxExtraFields} :
                          \A i, j \in 1..Len(e) : e[i][1] = e[j][1] => i = j}}

Body(result) == <<<<"result", result>>>>
Failure == <<<<"message", Str(<<"b", "a", "d">>)>>, <<"error_code", 5>>>>
Data == <<<<"data", <<"dict", "id", "x">>>>>>
Responses ==
    {[status_code |-> 200, body |-> b] :
        b \in {Body(True) \o Data, Body(True), Body(False) \o Failure,
               Body(False), Body(Int(<<"1">>)) \o Data \o Failure, Failure,
               Body(False) \o <<<<"message", Str(<<"b", "a", "d">>)>>>>}}
        \cup {[status_code |-> c, body |-> Body(True) \o Data] : c \in {404, 500}}

InitOps ==
    /\ shop_id \in {Str(<<"7">>), Int(<<"7">>)}
    /\ secret_key \in Secrets
    /\ last = NoCall
    /\ IdleSign
    /\ IdleCallback

others == <<shop_id, secret_key, first, second, request_data, prev, cur>>

One(v) == Str(<<v>>)

check_balance ==
    /\ ~last.called
    /\ \E now \in Nows, response \in Responses :
           last' = (Operation("check_balance", "shop_balance",
               <<<<"now", now>>, <<"shop_id", shop_id>>>>,
               <<"now", "shop_id">>, NoExtra, TRUE, "", response))
    /\ UNCHANGED others

bill ==
    /\ ~last.called
    /\ \E shop_amount \in OpAmounts, extra_fields \in ExtraFields,
          response \in Responses :
           last' = (Operation("bill", "bill/create",
               <<<<"payer_currency", One("6")>>, <<"shop_amount", shop_amount>>,
                 <<"shop_currency", One("6")>>, <<"shop_id", shop_id>>,
                 <<"shop_order_id", One("o")>>>>,
               <<"payer_currency", "shop_amount", "shop_currency", "shop_id",
                 "shop_order_id">>,
               extra_fields, TRUE, "", response))
    /\ UNCHANGED others

InvoiceFields(amount) ==
    <<<<"amount", amount>>, <<"currency", One("6")>>, <<"shop_id", shop_id>>,
      <<"payway", One("p")>>, <<"shop_order_id", One("o")>>>>
InvoiceRequired == <<"amount", "currency", "shop_id", "payway", "shop_order_id">>

invoice_try ==
    /\ ~last.called
    /\ \E amount \in OpAmounts, extra_fields \in ExtraFields, response \in Responses :
           last' = (Operation("invoice_try", "invoice/try", InvoiceFields(amount),
                            InvoiceRequired, extra_fields, TRUE, "", response))
    /\ UNCHANGED others

invoice ==
    /\ ~last.called
    /\ \E amount \in OpAmounts, extra_fields \in ExtraFields, response \in Responses :
           last' = (Operation("invoice", "invoice/create", InvoiceFields(amount),
                            InvoiceRequired, extra_fields, TRUE, "", response))
    /\ UNCHANGED others

transfer_status ==
    /\ ~last.called
    /\ \E now \in Nows, response \in Responses :
           last' = (Operation("transfer_status", "transfer/shop_payment_status",
               <<<<"now", now>>, <<"shop_id", shop_id>>,
                 <<"shop_payment_id", One("p")>>>>,
               <<"now", "shop_id", "shop_payment_id">>, NoExtra, TRUE, "", response))
    /\ UNCHANGED others

transfer ==
    /\ ~last.called
    /\ \E amount \in OpAmounts, amount_type \in AmountTypes,
          extra_fields \in ExtraFields, response \in Responses :
           last' = (Operation("transfer", "transfer/create",
               <<<<"amount", amount>>, <<"amount_type", amount_type>>,
                 <<"payee_account", One("w")>>, <<"payee_currency", One("6")>>,
                 <<"shop_currency", One("6")>>, <<"shop_id", shop_id>>,
                 <<"shop_payment_id", One("p")>>>>,
               <<"amount", "amount_type", "payee_account", "payee_currency",
                 "shop_currency", "shop_id", "shop_payment_id">>,
               extra_fields, TransferAmountTypeOk(amount_type), "", response))
    /\ UNCHANGED others

withdraw_try ==
    /\ ~last.called
    /\ \E amount \in OpAmounts, amount_type \in AmountTypes, response \in Responses :
           last' = (Operation("withdraw_try", "withdraw/try",
               <<<<"amount", amount>>, <<"amount_type", amount_type>>,
                 <<"payway", One("p")>>, <<"shop_currency", One("6")>>,
                 <<"shop_id", shop_id>>>>,
               <<"amount", "amount_type", "payway", "shop_currency", "shop_id">>,
               NoExtra, WithdrawAmountTypeOk(amount_type), "", response))
    /\ UNCHANGED others

\* req_dict["account_details"] = account_details, when given
WithDetails(req_dict, account_details) ==
    IF account_details.given
    THEN SetItem(req_dict, "account_details", account_details.d)
    ELSE req_dict

withdraw ==
    /\ ~last.called
    /\ \E amount \in OpAmounts, amount_type \in AmountTypes,
          account_details \in AccountDetails, extra_fields \in ExtraFields,
          response \in Responses :
           last' = (Operation("withdraw", "withdraw/create",
               WithDetails(
                   <<<<"account", One("w")>>, <<"amount", amount>>,
                     <<"amount_type", amount_type>>, <<"payway", One("p")>>,
                     <<"shop_currency", One("6")>>, <<"shop_id", shop_id>>,
                     <<"shop_payment_id", One("p")>>>>, account_details),
               <<"account", "amount", "amount_type", "payway", "shop_currency",
                 "shop_id", "shop_payment_id">>,
               extra_fields, WithdrawAmountTypeOk(amount_type), "", response))
    /\ UNCHANGED others

check_account ==
    /\ ~last.called
    /\ \E amount \in OpAmounts, account_details \in AccountDetails,
          response \in Responses :
           last' = (Operation("check_account", "check_account",
               WithDetails(
                   <<<<"account", One("w")>>, <<"amount", amount>>,
                     <<"payway", One("p")>>, <<"shop_id", shop_id>>>>,
                   account_details),
               <<"account", "amount", "payway", "shop_id">>,
               NoExtra, TRUE, "", response))
    /\ UNCHANGED others

withdraw_id ==
    /\ ~last.called
    /\ \E now \in Nows, response \in Responses :
           last' = (Operation("withdraw_id", "withdraw/status",
               <<<<"now", now>>, <<"shop_id", shop_id>>, <<"withdraw_id", One("i")>>>>,
               <<"now", "shop_id", "withdraw_id">>, NoExtra, TRUE, "", response))
    /\ UNCHANGED others

shop_payment_id ==
    /\ ~last.called
    /\ \E now \in Nows, response \in Responses :
           last' = (Operation("shop_payment_id", "withdraw/shop_payment_status",
               <<<<"now", now>>, <<"shop_id", shop_id>>,
                 <<"shop_payment_id", One("p")>>>>,
               <<"now", "shop_id", "shop_payment_id">>, NoExtra, TRUE, "", response))
    /\ UNCHANGED others

\* pay validates lang before it builds form_data, and posts nothing
pay ==
    /\ ~last.called
    /\ \E amount \in OpAmounts, extra_fields \in ExtraFields, lang \in Langs :
           LET form_data == <<<<"amount", amount>>, <<"shop_id", shop_id>>,
                              <<"currency", One("6")>>, <<"shop_order_id", One("o")>>>>
               call == Operation("pay", "pay", form_data,
                           <<"amount", "currency", "shop_id", "shop_order_id">>,
                           extra_fields, TRUE, lang, NoResponse)
           IN  last' = (IF lang \notin {"ru", "en"}
                      THEN [call EXCEPT !.form = <<>>,
                                !.result = PiastrixClientException(LanguageError)]
                      ELSE call)
    /\ UNCHANGED others

NextOps ==
    \/ check_balance \/ bill \/ invoice_try \/ invoice \/ transfer_status
    \/ transfer \/ withdraw_try \/ withdraw \/ check_account \/ withdraw_id
    \/ shop_payment_id \/ pay

SpecOps == InitOps /\ [][NextOps]_vars

-----------------------------------------------------------------------------
(* Claims about _sign, under SpecSign *)

Signed(c) == c.called /\ c.result.exc = "none"

SignCount(d) == Cardinality({i \in 1..Len(d) : d[i][1] = "sign"})

\* C1: for every field mapping (string and non-string values alike), every
\* set of required names contained in it and every secret, _sign completes
\* and stores under 'sign' exactly
\* hex(SHA256(join(':', [str(fields[k]) for k in sorted(names)]) + secret)).
C1_SignCoercesToString ==
    (first.called /\ SeqSet(first.required_fields) \subseteq KeySet(first.data))
        => /\ first.result.exc = "none"
           /\ HasKey(first.result.data, "sign")
           /\ Get(first.result.data, "sign")
                  = Signature(first.data, SeqSet(first.required_fields), secret_key)

RequiredValues(c) ==
    {Get(c.data, k) : k \in SeqSet(c.required_fields)}

DifferInRequired ==
    \E k \in SeqSet(first.required_fields) :
        Get(first.data, k) # Get(second.data, k)

HasColon(v) == \E i \in 1..Len(v) : v[i] = ":"

\* C9 as stated: for a fixed secret and fixed required names, two signed
\* mappings that differ in the value of a required field have different
\* signatures.
C9_DifferentValuesDifferentSignatures ==
    (Signed(first) /\ Signed(second) /\ DifferInRequired)
        => Get(first.result.data, "sign") # Get(second.result.data, "sign")

\* C9 amended: the same, for mappings none of whose required values contains
\* the separator ':'.
C9_DifferentColonFreeValuesDifferentSignatures ==
    (/\ Signed(first) /\ Signed(second) /\ DifferInRequired
     /\ \A v \in RequiredValues(first) \cup RequiredValues(second) : ~HasColon(v))
        => Get(first.result.data, "sign") # Get(second.result.data, "sign")

\* {"a":"1","b":"23"} and {"a":"12","b":"3"} are both signed, differently
C9_Witness ==
    /\ Signed(first) /\ Signed(second)
    /\ first.required_fields = <<"b", "a">>
    /\ first.data = <<<<"a", Str(<<"1">>)>>, <<"b", Str(<<"2", "3">>)>>>>
    /\ second.data = <<<<"a", Str(<<"1", "2">>)>>, <<"b", Str(<<"3">>)>>>>
    /\ Get(first.result.data, "sign") # Get(second.result.data, "sign")

-----------------------------------------------------------------------------
(* Claims about the business operations, under SpecOps *)

ExtraOps == {"bill", "invoice_try", "invoice", "transfer", "withdraw", "pay"}

\* the envelope handed to the transport, or returned by pay (none or one)
Envelopes == last.sent \o last.form

Conflict ==
    /\ last.extra_fields.given
    /\ KeySet(last.extra_fields.d) \cap KeySet(last.req_dict) # {}

\* pay builds no envelope for an invalid lang
EnvelopeBuilt == last.op = "pay" => last.lang \in {"ru", "en"}

\* C5: in every operation that accepts extra fields, if a key of the extra
\* fields is already present in the envelope built so far, the operation
\* fails with ExtraFieldsError (1000) and nothing is sent; otherwise the
\* envelope signed and sent is the union of the base fields and the extra
\* fields, no base value replaced.
C5_ExtraFieldsConflictOrUnion ==
    (last.called /\ last.op \in ExtraOps /\ last.extra_fields.given)
        => /\ (Conflict /\ EnvelopeBuilt)
                  => /\ last.result = PiastrixClientException(ExtraFieldsError)
                     /\ Envelopes = <<>>
           /\ \A i \in 1..Len(Envelopes) :
                  /\ ~Conflict
                  /\ Pop(Envelopes[i], "sign")
                         = Pop(last.req_dict \o last.extra_fields.d, "sign")
                  /\ \A k \in KeySet(last.req_dict) :
                         Get(Envelopes[i], k) = Get(last.req_dict, k)

\* withdraw with account_details and an extra field of that name: 1000
C5_Witness ==
    /\ last.called /\ last.op = "withdraw"
    /\ HasKey(last.req_dict, "account_details")
    /\ last.extra_fields = Extra(<<<<"account_details", Details>>>>)
    /\ last.result = PiastrixClientException(ExtraFieldsError)
    /\ last.sent = <<>>

InvalidAmountType ==
    /\ last.called
    /\ \/ /\ last.op = "transfer"
          /\ Get(last.req_dict, "amount_type")
                 \notin {Str(<<"receive_amount">>), Str(<<"writeoff_amount">>)}
       \/ /\ last.op \in {"withdraw_try", "withdraw"}
          /\ Get(last.req_dict, "amount_type")
                 \notin {Str(<<"ps_amount">>), Str(<<"shop_amount">>)}

\* C6 as stated: an amount_type outside the operation's set fails with
\* AmountTypeError (1007) before any network call, whatever the other
\* arguments, the extra fields included.
C6_InvalidAmountTypeAlways1007 ==
    InvalidAmountType
        => /\ last.result = PiastrixClientException(AmountTypeError)
           /\ last.sent = <<>>

\* C6 amended: such a call fails before any network call, with
\* AmountTypeError (1007) unless an extra field collides with a field of the
\* envelope, and then with ExtraFieldsError (1000).
C6_InvalidAmountTypeAfterExtraCheck ==
    InvalidAmountType
        => /\ last.sent = <<>>
           /\ last.result = IF Conflict
                            THEN PiastrixClientException(ExtraFieldsError)
                            ELSE PiastrixClientException(AmountTypeError)

\* transfer(amount_type='bogus') with a harmless extra field: 1007, nothing sent
C6_Witness ==
    /\ InvalidAmountType
    /\ last.op = "transfer"
    /\ Get(last.req_dict, "amount_type") = Str(<<"bogus">>)
    /\ last.extra_fields = Extra(<<<<"description", Str(<<"d">>)>>>>)
    /\ last.result = PiastrixClientException(AmountTypeError)
    /\ last.sent = <<>>

\* C7: _post fails with the transport's error for a non-success status,
\* returns 'data' (None when absent) when 'result' is boolean true, and for
\* every other success-status response fails with PiastrixClientException
\* carrying the response's 'message' and 'error_code'.
C7_PostClassifiesEveryResponse ==
    (last.called /\ last.sent # <<>>)
        => LET body == last.response.body
           IN  IF last.response.status_code \notin 200..299
               THEN last.result.exc = "HTTPError"
               ELSE IF HasKey(body, "result") /\ Get(body, "result") = True
               THEN /\ last.result = Returned
                    /\ last.value = IF HasKey(body, "data")
                                    THEN Get(body, "data") ELSE None
               ELSE /\ last.result.exc = "PiastrixClientException"
                    /\ HasKey(body, "message") => last.message = Get(body, "message")
                    /\ HasKey(body, "error_code")
                           => last.result.error_code = Get(body, "error_code")

\* each operation's fixed set of required field names
OpRequired(op) ==
    CASE op \in {"check_balance"} -> {"now", "shop_id"}
      [] op \in {"bill"} ->
            {"payer_currency", "shop_amount", "shop_currency", "shop_id",
             "shop_order_id"}
      [] op \in {"invoice_try", "invoice"} ->
            {"amount", "currency", "shop_id", "payway", "shop_order_id"}
      [] op \in {"transfer_status", "shop_payment_id"} ->
            {"now", "shop_id", "shop_payment_id"}
      [] op \in {"transfer"} ->
            {"amount", "amount_type", "payee_account", "payee_currency",
             "shop_currency", "shop_id", "shop_payment_id"}
      [] op \in {"withdraw_try"} ->
            {"amount", "amount_type", "payway", "shop_currency", "shop_id"}
      [] op \in {"withdraw"} ->
            {"account", "amount", "amount_type", "payway", "shop_currency",
             "shop_id", "shop_payment_id"}
      [] op \in {"check_account"} -> {"account", "amount", "payway", "shop_id"}
      [] op \in {"withdraw_id"} -> {"now", "shop_id", "withdraw_id"}
      [] op \in {"pay"} -> {"amount", "currency", "shop_id", "shop_order_id"}

\* C8: every envelope handed to the transport, or returned by pay, has
\* exactly one 'sign' field, whose value is the signature of the operation's
\* required fields as they stand in that envelope, with the configured
\* secret (so neither insertion order, nor an extra field, nor
\* account_details changes it).
C8_EnvelopeCarriesItsSignature ==
    last.called
        => \A i \in 1..Len(Envelopes) :
               /\ SignCount(Envelopes[i]) = 1
               /\ Get(Envelopes[i], "sign")
                      = Signature(Envelopes[i], OpRequired(last.op), secret_key)

\* withdraw sent with account_details and an extra field named 'sign'
C8_Witness ==
    /\ last.called /\ last.op = "withdraw"
    /\ last.sent # <<>>
    /\ HasKey(last.req_dict, "account_details")
    /\ last.extra_fields = Extra(<<<<"sign", forged>>>>)
    /\ Get(last.sent[1], "sign") # forged

-----------------------------------------------------------------------------
(* Claims about check_callback, under Spec *)

Notification == cur.request_data
Payload == Pop(Notification, "sign")

NonEmptyNames(d) == {k \in KeySet(d) : Get(d, k) # Str(<<>>) /\ Get(d, k) # None}

SourceOk == cur.args[1] \in allowed_ip_address
SignatureOk ==
    Get(Notification, "sign") = Signature(Payload, NonEmptyNames(Payload), secret_key)
AmountOk == cur.args[2] = Get(Payload, "shop_amount")
CurrencyOk == cur.args[3] = Get(Payload, "shop_currency")
StatusOk == Get(Payload, "status") = success

Checks == <<SourceOk, SignatureOk, AmountOk, CurrencyOk, StatusOk>>
Kinds == <<IpError, SignError, ShopAmountError, ShopCurrencyError, StatusError>>
Failed == {i \in 1..5 : ~Checks[i]}

\* C2: a notification with a correct signature, an allow-listed source,
\* matching amount and currency and status "success" is accepted; with
\* exactly one of the five changed it is rejected with exactly the
\* corresponding error code 1001..1005.
C2_AcceptsAuthenticRejectsSingleFlip ==
    (cur.called /\ HasKey(Notification, "sign"))
        => /\ Failed = {} => cur.result = Returned
           /\ \A i \in 1..5 :
                  Failed = {i} => cur.result = PiastrixClientException(Kinds[i])

\* C3: for a notification that has a 'sign' and violates several checks at
\* once, the failure reported is that of the earliest violated check in the
\* order source, signature, amount, currency, status; a signature mismatch
\* never yields an amount, currency or status failure, and an untrusted
\* source is reported whatever the signature.
C3_FirstViolatedCheckIsReported ==
    (cur.called /\ HasKey(Notification, "sign"))
        => /\ Cardinality(Failed) >= 2 =>
                  cur.result = PiastrixClientException(
                      Kinds[CHOOSE i \in Failed : \A j \in Failed : i <= j])
           /\ ~SignatureOk =>
                  cur.result.error_code
                      \notin {ShopAmountError, ShopCurrencyError, StatusError}
           /\ ~SourceOk => cur.result = PiastrixClientException(IpError)

\* C4: a notification without a 'sign' field is rejected with a structured
\* library error (PiastrixClientException carrying an error code), whatever
\* the source address and the expected amount and currency.
C4_MissingSignIsTypedFailure ==
    (cur.called /\ ~HasKey(Notification, "sign"))
        => /\ cur.result.exc = "PiastrixClientException"
           /\ cur.result.error_code # 0

\* C10: verification repeated on the same mapping object with the same
\* source address, expected amount and expected currency gives the same
\* outcome as the call before it.
C10_RepeatedVerificationSameOutcome ==
    (prev.called /\ cur.called /\ prev.args = cur.args)
        => cur.result = prev.result

=============================================================================
